---- MODULE Spec2Model ----
(***************************************************************************)
(* Model of pygaggle/data/create_epidemic_qa_monot5_input.py.              *)
(*                                                                         *)
(* The script has three parts, each with its own specification:            *)
(*   SpecQueries  load_queries (lines 19-42)                               *)
(*   SpecRun      load_run (lines 45-66)                                   *)
(*   Spec         the writing block of __main__ (lines 96-160), started    *)
(*                with the dictionaries `queries` and `run` the two        *)
(*                loaders are written to return. (As written, load_queries *)
(*                raises on every topic, see SpecQueries, so the block is  *)
(*                checked on its own inputs and not after the loaders.)    *)
(* Strings are modelled by what the code reads from them: a number field   *)
(* is a sequence of digit characters, a title a sequence of characters, a  *)
(* document's contents a sequence of lines, a body line the sequence of    *)
(* sentences the sentencizer finds in it.                                  *)
(***************************************************************************)
EXTENDS Integers, Sequences, FiniteSets, TLC

VARIABLES
    pc,               \* position in the script, or the exception that ended it
    args,             \* argparse namespace (line 86)
    topics,           \* parsed_json of load_queries (line 26)
    queries,          \* query_id -> text (line 23; line 88 in __main__)
    topic_pos,        \* position of the loop of line 27
    lines,            \* the lines of the run file (line 51)
    line_pos,         \* position of the loop of line 52
    run,              \* load_run: query_id -> [(doc_id, rank)] (line 50);
                      \* __main__: the dictionary load_run returned (line 89)
    sorted_run,       \* load_run's result (line 60)
    sort_pos,         \* position of the loop of line 61
    index,            \* doc id -> contents the index has returned so far
    fout_t5_texts,    \* lines written to the prompt file
    fout_t5_ids,      \* lines written to the id file
    num_docs, num_segments, num_no_segments, num_no_content,
    n_segments,       \* <<>> while the name is unbound, <<n>> once bound
    run_pos,          \* position of the loop of line 104 in run.items()
    query,            \* line 106
    seen_doc_ids,     \* line 107
    cand_pos,         \* position of the loop of line 108
    doc_title,        \* line 120
    sentences,        \* line 134
    i,                \* loop variable of line 140
    segment           \* line 141

vars == <<pc, args, topics, queries, topic_pos, lines, line_pos, run, sorted_run,
          sort_pos, index, fout_t5_texts, fout_t5_ids, num_docs, num_segments,
          num_no_segments, num_no_content, n_segments, run_pos, query,
          seen_doc_ids, cand_pos, doc_title, sentences, i, segment>>

loaderVars == <<topics, queries, topic_pos, lines, line_pos, run, sorted_run, sort_pos>>

mainVars == <<index, fout_t5_texts, fout_t5_ids, num_docs, num_segments,
              num_no_segments, num_no_content, n_segments, run_pos, query,
              seen_doc_ids, cand_pos, doc_title, sentences, i, segment>>

----------------------------------------------------------------------------
(* Bounds of the model. *)

MaxTopics == 2
MaxRunLines == 3
MaxCands == 2
MaxSents == 3
MaxStride == 2
MaxLength == 2

QueryIds == {1, 2}
DocIds == {"D1", "D2"}
QueryTexts == {"question", "query"}

Min(a, b) == IF a <= b THEN a ELSE b

----------------------------------------------------------------------------
(* int(): a sequence of decimal digits to its value. *)

DigitValue(c) ==
    CASE c = "0" -> 0 [] c = "1" -> 1 [] c = "2" -> 2 [] c = "3" -> 3 [] c = "4" -> 4
      [] c = "5" -> 5 [] c = "6" -> 6 [] c = "7" -> 7 [] c = "8" -> 8 [] c = "9" -> 9

RECURSIVE ParseInt(_)
ParseInt(s) ==
    IF s = <<>> THEN 0
    ELSE 10 * ParseInt(SubSeq(s, 1, Len(s) - 1)) + DigitValue(s[Len(s)])

(* An OrderedDict is a sequence of [key, value] entries with distinct keys. *)
Keys(d) == {d[k].key : k \in 1..Len(d)}
KeyPos(d, key) == CHOOSE k \in 1..Len(d) : d[k].key = key

----------------------------------------------------------------------------
(* load_queries, lines 19-42. *)

DefaultStride == 4
DefaultMaxLength == 8

TopicIds == {<<"C", "Q", "1">>, <<"E", "Q", "2">>, <<"E", "Q", "1", "2">>}
Topics == [question_id : TopicIds, question : {"what", "how"}, query : {"kw", "terms"}]
TopicArrays == UNION {[1..n -> Topics] : n \in 0..MaxTopics}

(* The attributes parse_args() sets that the script reads (lines 80-86). *)
ArgsOf(flag, stride, max_length) ==
    [use_question_and_query |-> flag, stride |-> stride, max_length |-> max_length]

HasAttr(namespace, name) == name \in DOMAIN namespace

EmptyDict == [k \in {} |-> ""]

(* Lines 32-40 for one topic: the id after its 2-character prefix, and the
   text the flag selects. *)
QuestionId(topic) ==
    ParseInt(SubSeq(topic.question_id, 3, Len(topic.question_id)))

LoadQueriesTopic ==
    /\ pc = "load_queries"
    /\ topic_pos <= Len(topics)
    /\ LET topic == topics[topic_pos]
           question_id == QuestionId(topic)
           question == topic.question
           topic_query == topic.query
       IN  IF ~HasAttr(args, "use_question")
           THEN /\ pc' = "AttributeError"
                /\ UNCHANGED <<queries, topic_pos>>
           ELSE /\ queries' = (question_id :> (IF args.use_question
                                               THEN question ELSE topic_query))
                              @@ queries
                /\ topic_pos' = topic_pos + 1
                /\ pc' = pc
    /\ UNCHANGED <<args, topics, lines, line_pos, run, sorted_run, sort_pos>>
    /\ UNCHANGED mainVars

LoadQueriesReturn ==
    /\ pc = "load_queries"
    /\ topic_pos > Len(topics)
    /\ pc' = "queries_returned"
    /\ UNCHANGED <<args, loaderVars>>
    /\ UNCHANGED mainVars

MainIdle ==
    /\ index = EmptyDict
    /\ fout_t5_texts = <<>>
    /\ fout_t5_ids = <<>>
    /\ num_docs = 0
    /\ num_segments = 0
    /\ num_no_segments = 0
    /\ num_no_content = 0
    /\ n_segments = <<>>
    /\ run_pos = 0
    /\ query = ""
    /\ seen_doc_ids = {}
    /\ cand_pos = 0
    /\ doc_title = <<>>
    /\ sentences = <<>>
    /\ i = 0
    /\ segment = <<>>

InitQueries ==
    /\ pc = "load_queries"
    /\ args \in {ArgsOf(flag, DefaultStride, DefaultMaxLength) : flag \in BOOLEAN}
    /\ topics \in TopicArrays
    /\ queries = EmptyDict
    /\ topic_pos = 1
    /\ lines = <<>>
    /\ line_pos = 1
    /\ run = <<>>
    /\ sorted_run = <<>>
    /\ sort_pos = 1
    /\ MainIdle

NextQueries == LoadQueriesTopic \/ LoadQueriesReturn

SpecQueries == InitQueries /\ [][NextQueries]_vars

----------------------------------------------------------------------------
(* load_run, lines 45-66. *)

QueryIdFields == {<<"1">>, <<"2">>, <<"0", "1">>}
RankFields == {<<"1">>, <<"2">>}
MalformedLine == <<<<"1">>, "Q0", "D1">>
RunLines ==
    {<<q, "Q0", d, r, "0", "run">> : q \in QueryIdFields, d \in DocIds, r \in RankFields}
        \cup {MalformedLine}
RunFiles == UNION {[1..n -> RunLines] : n \in 0..MaxRunLines}

(* sorted(doc_ids_ranks, key=lambda x: x[1]): a new list, stably sorted by
   rank (line 62). *)
RECURSIVE InsertByRank(_, _)
InsertByRank(x, s) ==
    IF s = <<>> THEN <<x>>
    ELSE IF s[1][2] <= x[2] THEN <<s[1]>> \o InsertByRank(x, Tail(s))
    ELSE <<x>> \o s

RECURSIVE Sorted(_)
Sorted(s) ==
    IF s = <<>> THEN <<>>
    ELSE InsertByRank(s[Len(s)], Sorted(SubSeq(s, 1, Len(s) - 1)))

(* Lines 62-63 with the sort applied to the stored list. *)
DocIdsOfSortedList(doc_ids_ranks) ==
    LET s == Sorted(doc_ids_ranks) IN [k \in 1..Len(s) |-> s[k][1]]

(* Lines 62-63: sorted() returns a new list that is dropped, and the doc ids
   are read from doc_ids_ranks itself. *)
DocIdsOf(doc_ids_ranks) ==
    LET dropped == Sorted(doc_ids_ranks)
    IN  [k \in 1..Len(doc_ids_ranks) |-> doc_ids_ranks[k][1]]

LoadRunLine ==
    /\ pc = "load_run"
    /\ line_pos <= Len(lines)
    /\ LET fields == lines[line_pos] IN
       IF Len(fields) # 6
       THEN /\ pc' = "ValueError"
            /\ UNCHANGED <<run, line_pos>>
       ELSE LET query_id == ParseInt(fields[1])
                doc_id == fields[3]
                rank == ParseInt(fields[4])
            IN  /\ run' = IF query_id \in Keys(run)
                          THEN [run EXCEPT ![KeyPos(run, query_id)].value =
                                               Append(@, <<doc_id, rank>>)]
                          ELSE Append(run, [key |-> query_id,
                                            value |-> << <<doc_id, rank>> >>])
                /\ line_pos' = line_pos + 1
                /\ pc' = pc
    /\ UNCHANGED <<args, topics, queries, topic_pos, lines, sorted_run, sort_pos>>
    /\ UNCHANGED mainVars

LoadRunSort ==
    /\ pc = "load_run"
    /\ line_pos > Len(lines)
    /\ sort_pos <= Len(run)
    /\ sorted_run' = Append(sorted_run, [key |-> run[sort_pos].key,
                                         value |-> DocIdsOf(run[sort_pos].value)])
    /\ sort_pos' = sort_pos + 1
    /\ UNCHANGED <<pc, args, topics, queries, topic_pos, lines, line_pos, run>>
    /\ UNCHANGED mainVars

LoadRunReturn ==
    /\ pc = "load_run"
    /\ line_pos > Len(lines)
    /\ sort_pos > Len(run)
    /\ pc' = "run_returned"
    /\ UNCHANGED <<args, loaderVars>>
    /\ UNCHANGED mainVars

InitRun ==
    /\ pc = "load_run"
    /\ args = ArgsOf(FALSE, DefaultStride, DefaultMaxLength)
    /\ topics = <<>>
    /\ queries = EmptyDict
    /\ topic_pos = 1
    /\ lines \in RunFiles
    /\ line_pos = 1
    /\ run = <<>>
    /\ sorted_run = <<>>
    /\ sort_pos = 1
    /\ MainIdle

NextRun == LoadRunLine \/ LoadRunSort \/ LoadRunReturn

SpecRun == InitRun /\ [][NextRun]_vars

----------------------------------------------------------------------------
(* The writing block of __main__, lines 96-160. *)

(* What index_utils.doc_contents can return (line 111): None, or a string,
   given as its lines: the title line, then the body lines, each the
   sequence of its sentences. The empty string has one empty line. *)
Titles == {<<>>, <<"T">>, <<".", "T">>}
SentenceNames == <<"s1", "s2", "s3", "s4", "s5", "s6">>
Body(n) == SubSeq(SentenceNames, 1, n)
BodyLines ==
    {<<Body(n)>> : n \in 0..MaxSents}
        \cup {<<Body(1), SubSeq(SentenceNames, 2, n)>> : n \in 2..MaxSents}
NoneContents == [isNone |-> TRUE, lines |-> <<>>]
Contents ==
    {NoneContents}
        \cup {[isNone |-> FALSE, lines |-> <<t>> \o b] : t \in Titles, b \in BodyLines \cup {<<>>}}

(* The test of line 112 as `contents is None`. *)
NotContents_IsNone(contents) == contents.isNone

(* `not contents` (line 112): None or the empty string. *)
NotContents(contents) == contents.isNone \/ contents.lines = << <<>> >>

(* contents.split('\n') (line 116). *)
Split(contents) == contents.lines

(* The test of line 122 as `len(sections) < 1`. *)
TitleOnly_LessThanOne(sections) == Len(sections) < 1

(* len(sections) < 2 (line 122). *)
TitleOnly(sections) == Len(sections) < 2

RECURSIVE Flatten(_)
Flatten(ls) == IF ls = <<>> THEN <<>> ELSE ls[1] \o Flatten(Tail(ls))

(* Lines 127-134: the body lines joined, and the sentences of the result. *)
Sentencize(sections) == Flatten(Tail(sections))

(* The slice of line 142 with its end one sentence further. *)
Window_OneMore(sents, start, max_length) ==
    SubSeq(sents, start + 1, Min(start + max_length + 1, Len(sents)))

(* sentences[i:(i + max_length)] (line 142). *)
Window(sents, start, max_length) ==
    SubSeq(sents, start + 1, Min(start + max_length, Len(sents)))

(* ' '.join(...).strip() (lines 141-142): the text without the empty
   sentences, which add only blanks. *)
JoinStrip(window) == SelectSeq(window, LAMBDA sent : sent # "")

(* Lines 145-146. *)
StripDot(title) ==
    IF title # <<>> /\ title[1] = "." THEN Tail(title) ELSE title

(* Lines 144-147: the title, when there is one, goes before the text. *)
WithTitle(title, text) ==
    IF title # <<>> THEN <<StripDot(title), text>> ELSE <<text>>

(* Line 149. *)
IdLine(query_id, candidate_doc_id, offset) == <<query_id, candidate_doc_id, offset>>

(* Lines 150-152. *)
PromptLine(query_text, segment_text) == [query |-> query_text, document |-> segment_text]

IsBound(name) == name # <<>>

query_id == run[run_pos].key
candidate_doc_ids == run[run_pos].value
candidate_doc_id == candidate_doc_ids[cand_pos]

(* Lines 104-107. *)
NextQuery ==
    /\ pc = "query_loop"
    /\ run_pos < Len(run)
    /\ run_pos' = run_pos + 1
    /\ LET next_query_id == run[run_pos + 1].key IN
       IF next_query_id \notin DOMAIN queries
       THEN /\ pc' = "KeyError"
            /\ UNCHANGED <<query, seen_doc_ids, cand_pos>>
       ELSE /\ query' = queries[next_query_id]
            /\ seen_doc_ids' = {}
            /\ cand_pos' = 1
            /\ pc' = "candidate_loop"
    /\ UNCHANGED <<args, loaderVars, index, fout_t5_texts, fout_t5_ids, num_docs,
                   num_segments, num_no_segments, num_no_content, n_segments,
                   doc_title, sentences, i, segment>>

(* `continue` (lines 110, 115, 119, 124). *)
Continue ==
    /\ cand_pos' = cand_pos + 1
    /\ pc' = "candidate_loop"

(* Lines 109-110. *)
SeenBranch ==
    /\ Continue
    /\ UNCHANGED <<num_docs, num_no_segments, num_no_content, doc_title, sentences, i>>

(* Lines 112-115, and lines 117-119. *)
NotFoundBranch ==
    /\ num_no_content' = num_no_content + 1
    /\ Continue
    /\ UNCHANGED <<num_docs, num_no_segments, doc_title, sentences, i>>

(* Lines 120-124. *)
TitleOnlyBranch(sections) ==
    /\ doc_title' = sections[1]
    /\ num_docs' = num_docs + 1
    /\ num_no_content' = num_no_content + 1
    /\ Continue
    /\ UNCHANGED <<num_no_segments, sentences, i>>

(* Lines 120-140: the sentences of the body, and the first value of the
   range of line 140, which is not empty as len(sentences) >= 1. *)
SegmentBranch(sections) ==
    /\ doc_title' = sections[1]
    /\ num_docs' = num_docs + 1
    /\ LET sents == Sentencize(sections) IN
       IF sents = <<>>
       THEN /\ num_no_segments' = num_no_segments + 1
            /\ sentences' = <<"">>
       ELSE /\ sentences' = sents
            /\ UNCHANGED num_no_segments
    /\ i' = 0
    /\ cand_pos' = cand_pos
    /\ pc' = "write_ids"
    /\ UNCHANGED num_no_content

(* Lines 108-140 for one candidate. The index answers the same for a doc id
   it has answered for before. *)
ProcessCandidate ==
    /\ pc = "candidate_loop"
    /\ cand_pos <= Len(candidate_doc_ids)
    /\ IF candidate_doc_id \in seen_doc_ids
       THEN SeenBranch /\ UNCHANGED index
       ELSE \E contents \in (IF candidate_doc_id \in DOMAIN index
                             THEN {index[candidate_doc_id]} ELSE Contents) :
              /\ index' = (candidate_doc_id :> contents) @@ index
              /\ IF NotContents(contents) THEN NotFoundBranch
                 ELSE LET sections == Split(contents) IN
                      IF Len(sections) = 0 THEN NotFoundBranch
                      ELSE IF TitleOnly(sections) THEN TitleOnlyBranch(sections)
                      ELSE SegmentBranch(sections)
    /\ UNCHANGED <<args, loaderVars, fout_t5_texts, fout_t5_ids, num_segments,
                   n_segments, run_pos, query, seen_doc_ids, segment>>

(* Line 108, no candidate left: back to line 104. *)
EndCandidates ==
    /\ pc = "candidate_loop"
    /\ cand_pos > Len(candidate_doc_ids)
    /\ pc' = "query_loop"
    /\ UNCHANGED <<args, loaderVars, mainVars>>

(* Lines 141-149 with the id line left out for a segment without text. *)
WriteIds_SkipEmpty ==
    /\ pc = "write_ids"
    /\ segment' = WithTitle(doc_title, JoinStrip(Window(sentences, i, args.max_length)))
    /\ doc_title' = StripDot(doc_title)
    /\ fout_t5_ids' = IF JoinStrip(Window(sentences, i, args.max_length)) = <<>>
                      THEN fout_t5_ids
                      ELSE Append(fout_t5_ids, IdLine(query_id, candidate_doc_id, i))
    /\ pc' = "write_texts"
    /\ UNCHANGED <<args, loaderVars, index, fout_t5_texts, num_docs, num_segments,
                   num_no_segments, num_no_content, n_segments, run_pos, query,
                   seen_doc_ids, cand_pos, sentences, i>>

(* Lines 141-149: the segment is built and its id line written. *)
WriteIds ==
    /\ pc = "write_ids"
    /\ segment' = WithTitle(doc_title, JoinStrip(Window(sentences, i, args.max_length)))
    /\ doc_title' = StripDot(doc_title)
    /\ fout_t5_ids' = Append(fout_t5_ids, IdLine(query_id, candidate_doc_id, i))
    /\ pc' = "write_texts"
    /\ UNCHANGED <<args, loaderVars, index, fout_t5_texts, num_docs, num_segments,
                   num_no_segments, num_no_content, n_segments, run_pos, query,
                   seen_doc_ids, cand_pos, sentences, i>>

(* Lines 150-156: the prompt line is written, then `n_segments += 1` reads a
   name that no line of the script binds. *)
WriteTexts ==
    /\ pc = "write_texts"
    /\ fout_t5_texts' = Append(fout_t5_texts, PromptLine(query, segment))
    /\ IF ~IsBound(n_segments)
       THEN /\ pc' = "NameError"
            /\ UNCHANGED <<n_segments, i, seen_doc_ids, cand_pos>>
       ELSE /\ n_segments' = <<n_segments[1] + 1>>
            /\ IF i + args.max_length >= Len(sentences)
                  \/ i + args.stride >= Len(sentences)
               THEN /\ seen_doc_ids' = seen_doc_ids \cup {candidate_doc_id}
                    /\ cand_pos' = cand_pos + 1
                    /\ pc' = "candidate_loop"
                    /\ i' = i
               ELSE /\ i' = i + args.stride
                    /\ pc' = "write_ids"
                    /\ UNCHANGED <<seen_doc_ids, cand_pos>>
    /\ UNCHANGED <<args, loaderVars, index, fout_t5_ids, num_docs, num_segments,
                   num_no_segments, num_no_content, run_pos, query, doc_title,
                   sentences, segment>>

(* Lines 157-160, after the loop of line 104 has ended and the files are
   closed: line 158 reads n_segments. *)
Summary ==
    /\ pc = "query_loop"
    /\ run_pos >= Len(run)
    /\ pc' = IF IsBound(n_segments) THEN "Done" ELSE "NameError"
    /\ UNCHANGED <<args, loaderVars, mainVars>>

(* The dictionaries the loaders are written to return: a text for some of
   the query ids, and for distinct query ids a non-empty candidate list. *)
QueryDicts == UNION {[S -> QueryTexts] : S \in SUBSET QueryIds}
CandidateLists == UNION {[1..n -> DocIds] : n \in 1..MaxCands}
RunEntries == [key : QueryIds, value : CandidateLists]
RunDicts ==
    UNION {{r \in [1..n -> RunEntries] :
               \A a, b \in 1..n : a # b => r[a].key # r[b].key} :
           n \in 0..Cardinality(QueryIds)}

Init ==
    /\ pc = "query_loop"
    /\ args \in {ArgsOf(flag, stride, max_length) :
                    flag \in {FALSE}, stride \in 1..MaxStride, max_length \in 1..MaxLength}
    /\ topics = <<>>
    /\ queries \in QueryDicts
    /\ topic_pos = 1
    /\ lines = <<>>
    /\ line_pos = 1
    /\ run \in RunDicts
    /\ sorted_run = <<>>
    /\ sort_pos = 1
    /\ MainIdle

Next ==
    \/ NextQuery
    \/ ProcessCandidate
    \/ EndCandidates
    \/ WriteIds
    \/ WriteTexts
    \/ Summary

Spec == Init /\ [][Next]_vars

----------------------------------------------------------------------------
(* Properties. *)

Terminal == {"KeyError", "NameError", "Done"}

(* Every query id of the run has a text (stride and max_length are positive
   in every state of Spec). *)
WellFormed ==
    /\ \A k \in 1..Len(run) : run[k].key \in DOMAIN queries
    /\ args.stride >= 1
    /\ args.max_length >= 1

RECURSIVE StripDots(_, _)
StripDots(title, n) == IF n = 0 THEN title ELSE StripDots(StripDot(title), n - 1)

(* The sentence list of line 134-138 of an indexed document. *)
DocSentences(doc_id) ==
    LET sents == Sentencize(Split(index[doc_id]))
    IN  IF sents = <<>> THEN <<"">> ELSE sents

(* The prompt line of the segment an id line names. *)
PromptOf(id) ==
    LET title == Split(index[id[2]])[1]
        nth == id[3] \div args.stride
    IN  PromptLine(queries[id[1]],
                   WithTitle(StripDots(title, nth),
                             JoinStrip(Window(DocSentences(id[2]), id[3], args.max_length))))

(* C1: outside the two writes of one segment, and so after every segment
   and at the end of every run, normal or not, the prompt file and the id
   file have the same number of lines, and the k-th prompt line is the
   prompt of the (query id, doc id, offset) of the k-th id line. *)
C1_Lockstep ==
    /\ pc # "write_texts" => Len(fout_t5_ids) = Len(fout_t5_texts)
    /\ pc = "write_texts" => Len(fout_t5_ids) = Len(fout_t5_texts) + 1
    /\ \A k \in 1..Len(fout_t5_texts) : fout_t5_texts[k] = PromptOf(fout_t5_ids[k])

C1_Witness ==
    /\ pc = "NameError"
    /\ Len(fout_t5_texts) = 1
    /\ Len(fout_t5_ids) = 1
    /\ fout_t5_texts[1].document[Len(fout_t5_texts[1].document)] # <<>>

(* The sentences of the k-th prompt line, and the number of earlier id lines
   of the same query and document. *)
WindowText(k) == fout_t5_texts[k].document[Len(fout_t5_texts[k].document)]
EarlierWindows(k) ==
    Cardinality({m \in 1..(k - 1) : /\ fout_t5_ids[m][1] = fout_t5_ids[k][1]
                                    /\ fout_t5_ids[m][2] = fout_t5_ids[k][2]})

(* C2: every emitted window has at most max_length sentences, which are
   consecutive sentences of the document starting at the offset of its id
   line, and the offset of the j-th window of a document is j * stride. *)
C2_WindowCapAndStride ==
    \A k \in 1..Len(fout_t5_texts) :
        LET id == fout_t5_ids[k]
            sents == Sentencize(Split(index[id[2]]))
            text == WindowText(k)
        IN  /\ Len(text) <= args.max_length
            /\ text = SubSeq(sents, id[3] + 1, id[3] + Len(text))
            /\ id[3] = EarlierWindows(k) * args.stride

C2_Witness ==
    \E k \in 1..Len(fout_t5_texts) :
        /\ Len(WindowText(k)) = args.max_length
        /\ Len(Sentencize(Split(index[fout_t5_ids[k][2]]))) > args.max_length

(* C3: when the run has ended, a window of a document with at least one
   sentence contains the document's last sentence exactly when it is the
   last window emitted for the document. *)
C3_LastWindowReachesEnd ==
    pc \in Terminal =>
        \A k \in 1..Len(fout_t5_ids) :
            LET id == fout_t5_ids[k]
                sents == Sentencize(Split(index[id[2]]))
                isLast == \A m \in (k + 1)..Len(fout_t5_ids) :
                              fout_t5_ids[m][1] # id[1] \/ fout_t5_ids[m][2] # id[2]
            IN  sents # <<>> =>
                    (isLast <=> (id[3] < Len(sents) /\ id[3] + args.max_length >= Len(sents)))

(* The run file read as the documentation of load_run reads it. *)
RECURSIVE FirstOccurrences(_)
FirstOccurrences(s) ==
    IF s = <<>> THEN <<>>
    ELSE LET front == FirstOccurrences(SubSeq(s, 1, Len(s) - 1))
             last == s[Len(s)]
         IN  IF \E k \in 1..Len(front) : front[k] = last THEN front ELSE Append(front, last)

FileQueryIds == FirstOccurrences([k \in 1..Len(lines) |-> ParseInt(lines[k][1])])
FileLinesOf(q) == SelectSeq(lines, LAMBDA l : ParseInt(l[1]) = q)
FileDocIds(q) == [k \in 1..Len(FileLinesOf(q)) |-> FileLinesOf(q)[k][3]]
FileDocIdsRanks(q) ==
    [k \in 1..Len(FileLinesOf(q)) |-> <<FileLinesOf(q)[k][3], ParseInt(FileLinesOf(q)[k][4])>>]

(* C4: load_run returns the query ids in order of first occurrence, each
   with its doc ids in the order of the file's lines, repeated doc ids
   included, whatever the ranks. *)
C4_FileOrder ==
    pc = "run_returned" =>
        sorted_run = [k \in 1..Len(FileQueryIds) |->
                         [key |-> FileQueryIds[k], value |-> FileDocIds(FileQueryIds[k])]]

C4_Witness ==
    /\ pc = "run_returned"
    /\ \E a, b \in 1..Len(lines) :
           /\ a < b
           /\ ParseInt(lines[a][1]) = ParseInt(lines[b][1])
           /\ lines[a][1] # lines[b][1]
           /\ ParseInt(lines[a][4]) > ParseInt(lines[b][4])
    /\ \E a, b \in 1..Len(lines) :
           /\ a < b
           /\ ParseInt(lines[a][1]) = ParseInt(lines[b][1])
           /\ lines[a][3] = lines[b][3]

(* C5: the doc ids load_run returns for a query are in the order of their
   ranks. *)
C5_RankOrder ==
    pc = "run_returned" =>
        \A k \in 1..Len(sorted_run) :
            sorted_run[k].value = DocIdsOfSortedList(FileDocIdsRanks(sorted_run[k].key))

(* C6: for a topic array that is not empty, load_queries returns, and maps
   each question id to question + query when the flag is set and to the
   question when it is not. *)
C6_QueriesLoaded ==
    (topics # <<>> /\ pc \in {"queries_returned", "AttributeError"}) =>
        /\ pc = "queries_returned"
        /\ DOMAIN queries = {QuestionId(topics[k]) : k \in 1..Len(topics)}
        /\ \A k \in 1..Len(topics) :
               (\A m \in (k + 1)..Len(topics) : QuestionId(topics[m]) # QuestionId(topics[k]))
                   => queries[QuestionId(topics[k])] =
                          IF args.use_question_and_query
                          THEN <<topics[k].question, topics[k].query>>
                          ELSE <<topics[k].question>>

AtCandidate == pc = "candidate_loop" /\ cand_pos <= Len(candidate_doc_ids)

(* C7: the step for a candidate whose contents have fewer than 2 lines adds
   one to num_no_content, writes to neither file and goes on to the next
   candidate of the same query. *)
C7_TitleOnlySkipped ==
    [][(/\ AtCandidate
        /\ candidate_doc_id \in DOMAIN index'
        /\ ~index'[candidate_doc_id].isNone
        /\ Len(index'[candidate_doc_id].lines) < 2)
       => (/\ num_no_content' = num_no_content + 1
           /\ fout_t5_texts' = fout_t5_texts
           /\ fout_t5_ids' = fout_t5_ids
           /\ pc' = "candidate_loop"
           /\ cand_pos' = cand_pos + 1
           /\ run_pos' = run_pos)]_vars

C7_Witness ==
    /\ pc = "candidate_loop"
    /\ cand_pos > 1
    /\ cand_pos <= Len(candidate_doc_ids)
    /\ candidate_doc_ids[cand_pos - 1] \in DOMAIN index
    /\ index[candidate_doc_ids[cand_pos - 1]].lines \in {<<t>> : t \in Titles \ {<<>>}}
    /\ num_no_content >= 1
    /\ num_docs >= 1
    /\ fout_t5_ids = <<>>

TotalCandidates(r) ==
    LET RECURSIVE Sum(_)
        Sum(k) == IF k = 0 THEN 0 ELSE Len(r[k].value) + Sum(k - 1)
    IN  Sum(Len(r))

(* C8: the step for a candidate the index has no contents for adds one to
   num_no_content, writes to neither file, leaves the other counters alone
   and goes on to the next candidate of the same query; and a run in which
   no looked-up document has contents goes through every candidate of every
   query and reaches the summary. *)
C8_MissingSkipped ==
    /\ [][(/\ AtCandidate
           /\ candidate_doc_id \in DOMAIN index'
           /\ (index'[candidate_doc_id].isNone
                 \/ index'[candidate_doc_id].lines = << <<>> >>))
          => (/\ num_no_content' = num_no_content + 1
              /\ fout_t5_texts' = fout_t5_texts
              /\ fout_t5_ids' = fout_t5_ids
              /\ num_docs' = num_docs
              /\ num_segments' = num_segments
              /\ num_no_segments' = num_no_segments
              /\ pc' = "candidate_loop"
              /\ cand_pos' = cand_pos + 1
              /\ run_pos' = run_pos)]_vars
    /\ []((/\ pc \in Terminal
           /\ pc # "KeyError"
           /\ \A d \in DOMAIN index : index[d].isNone \/ index[d].lines = << <<>> >>)
          => (/\ run_pos = Len(run)
              /\ num_no_content = TotalCandidates(run)))

C8_Witness ==
    /\ pc \in Terminal
    /\ pc # "KeyError"
    /\ Len(run) = 2
    /\ num_no_content = TotalCandidates(run)
    /\ num_no_content >= 3
    /\ \E d \in DOMAIN index : index[d].isNone

(* C9: a run on well-formed inputs ends at 'Done', and the segment count it
   reports is the number of lines of the prompt file. *)
C9_EndsAtDone ==
    (WellFormed /\ pc \in Terminal) =>
        /\ pc = "Done"
        /\ n_segments = <<Len(fout_t5_texts)>>

Emitted(q, d) ==
    \E k \in 1..Len(fout_t5_ids) : fout_t5_ids[k][1] = q /\ fout_t5_ids[k][2] = d

(* C10: when a run on well-formed inputs has ended, no (query id, doc id,
   offset) is twice in the id file, and a document emitted under one query
   is emitted under every other query that lists it as well. *)
C10_OncePerQuery ==
    (WellFormed /\ pc \in Terminal) =>
        /\ \A k, m \in 1..Len(fout_t5_ids) : fout_t5_ids[k] = fout_t5_ids[m] => k = m
        /\ \A a, b \in 1..Len(run) :
               \A d \in DocIds :
                   (/\ \E c \in 1..Len(run[a].value) : run[a].value[c] = d
                    /\ \E c \in 1..Len(run[b].value) : run[b].value[c] = d
                    /\ Emitted(run[a].key, d))
                       => Emitted(run[b].key, d)

====
